---- MODULE Spec2Model ----
(***************************************************************************)
(* A model of iref's Discovery Queue Engine: the queue store               *)
(* (store/queue_store.py), the scanners and queue builders (cli.py,        *)
(* queue_cmd.py) and the interactive review loop (queue/review.py, driven  *)
(* by cli.py).                                                             *)
(*                                                                         *)
(* The specifications share the variables:                                 *)
(*   Spec        - one review session (queue_review_cmd + review_loop)     *)
(*   SpecStore   - the queue store and the files of the state directory    *)
(*   SpecFind    - start-token resolution (find_index, --start-from)       *)
(*   SpecPending - first_pending_index                                     *)
(*   SpecRound   - save_all followed by load_queue                         *)
(*   SpecBuild   - build_queue and the scan command                        *)
(*   SpecScan    - the directory walks of the two scanners                 *)
(***************************************************************************)
EXTENDS Integers, Sequences, FiniteSets, TLC

VARIABLES
    items,      \* the in-memory item list q["items"] (0-based in the code, 1-based here)
    index,      \* ReviewState.index
    show_help,  \* ReviewState.show_help
    last_ops,   \* ReviewState.last_ops, the undo history
    pc,         \* where the session is: "start", "await", "done", "raised"
    auto_open,  \* review_loop's auto_open (not --no-open)
    now,        \* the clock now_iso() reads; it has moved on at every decision
    opened,     \* position the viewer was last requested for in this step, -1 if none
    hist,       \* what the last handled input was and what it started from
    target,     \* the file .iref/queue.json
    strays,     \* number of temporary files left in the state directory
    ret,        \* outcome of the last queue-store call
    scan,       \* the scan's write of queue.json: "idle" or "writing"
    tok,        \* a start token
    res,        \* what the start token resolved to
    tree,       \* the files under the root a scan walks
    built       \* what the last scanner or queue builder produced

reviewVars == <<items, index, show_help, last_ops, pc, auto_open, now, opened, hist>>
fsVars     == <<target, strays>>
storeVars  == <<ret, scan>>
findVars   == <<tok, res>>
buildVars  == <<tree, built>>
vars       == <<reviewVars, fsVars, storeVars, findVars, buildVars>>

----------------------------------------------------------------------------
(* Bounds of the model *)

MaxItems    == 2   \* longest queue of a review session
MaxDecisions == 2  \* decisions made in one session
MaxDocItems == 1   \* longest item list of a stored document
MaxStrays   == 2   \* temporary files left behind before the store spec stops saving
MaxQueue    == 2   \* longest queue given to find_index
MaxStrLen   == 2   \* longest relpath and token given to find_index
MaxPending  == 5   \* longest queue given to first_pending_index
MaxSaved    == 2   \* longest item list of a document saved and loaded again
MaxFiles    == 3   \* most files of a tree given to the queue builders
MaxLimit    == 2   \* largest cap given to the queue builders
MaxDepth    == 2   \* most directories between the root and a file
MaxTreeFiles == 2  \* most files of a tree given to the scanners

Min(a, b) == IF a < b THEN a ELSE b
Max(a, b) == IF a > b THEN a ELSE b

----------------------------------------------------------------------------
(* JSON values.  A field of an item is absent, null, a non-string scalar   *)
(* or a string.                                                            *)

Absent == <<"absent">>
Null   == <<"null">>
Num    == <<"num">>
Str(s) == <<"str", s>>

IsStr(v) == v[1] = "str"

\* dict.get(key) with the default None
Get(item, key) == IF item[key] = Absent THEN Null ELSE item[key]

\* An item: a JSON object with the three fields the engine reads and one of
\* the fields it only carries (width), or some other JSON value
\* (isdict = FALSE).
Item(rp, st, dt) ==
    [isdict |-> TRUE, relpath |-> rp, status |-> st, decided_at |-> dt, width |-> Absent]
NonDictItem ==
    [isdict |-> FALSE, relpath |-> Absent, status |-> Absent, decided_at |-> Absent,
     width |-> Absent]

\* A parsed document: a JSON object or not, and its "items" member.
Payload(isdict, items_t, its) == [isdict |-> isdict, items_t |-> items_t, items |-> its]
QueueDoc(its) == Payload(TRUE, "list", its)

\* The content of a file: no file, a truncated document, other bytes that
\* are not JSON, or the bytes of a JSON value.
FileAbsent    == [st |-> "absent",  doc |-> QueueDoc(<<>>)]
FilePartial   == [st |-> "partial", doc |-> QueueDoc(<<>>)]
FileGarbage   == [st |-> "garbage", doc |-> QueueDoc(<<>>)]

\* The keys of an item, in the order the engine writes them.
ItemKeys == <<"relpath", "status", "decided_at", "width">>

\* (mutant of JsonItem) None-valued members are not written
JsonItem_omit_none(item) ==
    LET member(k) == IF item[k] \in {Absent, Null} THEN <<>> ELSE <<<<k, item[k]>>>>
    IN  [obj |-> item.isdict,
         members |-> IF item.isdict
                     THEN member(ItemKeys[1]) \o member(ItemKeys[2])
                          \o member(ItemKeys[3]) \o member(ItemKeys[4])
                     ELSE <<>>]

\* An item as JSON text: a scalar, or an object holding one member
\* <<key, value>> for every key the dict has; a key the dict lacks is not
\* written, a key whose value is None is written with the value null.
JsonItem(item) ==
    LET member(k) == IF item[k] = Absent THEN <<>> ELSE <<<<k, item[k]>>>>
    IN  [obj |-> item.isdict,
         members |-> IF item.isdict
                     THEN member(ItemKeys[1]) \o member(ItemKeys[2])
                          \o member(ItemKeys[3]) \o member(ItemKeys[4])
                     ELSE <<>>]

\* The dict a JSON object parses to: a key has the value of the last member
\* that names it and is absent when no member does.
ParsedItem(json) ==
    LET value(k) ==
            LET S == {i \in 1..Len(json.members) : json.members[i][1] = k}
            IN  IF S = {} THEN Absent
                ELSE json.members[CHOOSE i \in S : \A j \in S : j <= i][2]
    IN  IF ~json.obj THEN NonDictItem
        ELSE [isdict |-> TRUE, relpath |-> value("relpath"), status |-> value("status"),
              decided_at |-> value("decided_at"), width |-> value("width")]

\* orjson.dumps / orjson.loads
dumps(payload) ==
    [st |-> "json",
     doc |-> [payload EXCEPT !.items = [i \in 1..Len(payload.items) |->
                                            JsonItem(payload.items[i])]]]
loads(file) ==
    IF file.st = "json"
    THEN [exc |-> "none",
          data |-> [file.doc EXCEPT !.items = [i \in 1..Len(file.doc.items) |->
                                                  ParsedItem(file.doc.items[i])]]]
    ELSE [exc |-> "JSONDecodeError", data |-> QueueDoc(<<>>)]

----------------------------------------------------------------------------
(* store/queue_store.py *)

ItemValid(item) ==
    /\ item.isdict
    /\ item.relpath # Absent /\ IsStr(item.relpath)
    /\ LET st == Get(item, "status") IN ~(st # Null /\ ~IsStr(st))
    /\ LET dt == Get(item, "decided_at") IN ~(dt # Null /\ ~(IsStr(dt) \/ dt = Null))

\* "ok", or the ValueError it raises
_validate_queue_payload(payload) ==
    IF ~payload.isdict THEN "ValueError"
    ELSE IF payload.items_t # "list" THEN "ValueError"
    ELSE IF \E i \in 1..Len(payload.items) : ~ItemValid(payload.items[i]) THEN "ValueError"
    ELSE "ok"

\* What can happen to one atomic write.
WriteOutcomes ==
    {"ok", "mkstemp_fails", "write_fails", "replace_fails", "remove_fails", "interrupted"}

\* _atomic_write_json on the file system fs = [target, strays]: the new file
\* system and the exception raised.
\*   mkstemp_fails  no temporary file was created
\*   write_fails    an Exception while writing; the handler removes the file
\*   replace_fails  os.replace raises; the handler removes the file
\*   remove_fails   os.replace raises and so does os.remove (OSError, passed)
\*   interrupted    KeyboardInterrupt while writing: not an Exception, so the
\*                  handler does not run
_atomic_write_json(fs, data, outcome) ==
    CASE outcome = "ok" ->
            [target |-> dumps(data), strays |-> fs.strays, exc |-> "none"]
      [] outcome = "mkstemp_fails" ->
            [target |-> fs.target, strays |-> fs.strays, exc |-> "OSError"]
      [] outcome \in {"write_fails", "replace_fails"} ->
            [target |-> fs.target, strays |-> fs.strays, exc |-> "OSError"]
      [] outcome = "remove_fails" ->
            [target |-> fs.target, strays |-> fs.strays + 1, exc |-> "OSError"]
      [] outcome = "interrupted" ->
            [target |-> fs.target, strays |-> fs.strays + 1, exc |-> "KeyboardInterrupt"]

load_queue(fs) ==
    IF fs.target.st = "absent" THEN [exc |-> "FileNotFoundError", data |-> QueueDoc(<<>>)]
    ELSE LET r == loads(fs.target) IN
         IF r.exc # "none" THEN [exc |-> "ValueError", data |-> QueueDoc(<<>>)]
         ELSE IF _validate_queue_payload(r.data) # "ok"
              THEN [exc |-> "ValueError", data |-> QueueDoc(<<>>)]
              ELSE [exc |-> "none", data |-> r.data]

\* idx is the code's 0-based index
save_item(fs, idx, new_item, outcome) ==
    LET q == load_queue(fs) IN
    IF q.exc # "none" THEN [target |-> fs.target, strays |-> fs.strays, exc |-> q.exc]
    ELSE IF ~(0 <= idx /\ idx < Len(q.data.items))
         THEN [target |-> fs.target, strays |-> fs.strays, exc |-> "IndexError"]
         ELSE _atomic_write_json(fs,
                  [q.data EXCEPT !.items = [q.data.items EXCEPT ![idx + 1] = new_item]],
                  outcome)

save_all(fs, queue_data, outcome) ==
    IF _validate_queue_payload(queue_data) # "ok"
    THEN [target |-> fs.target, strays |-> fs.strays, exc |-> "ValueError"]
    ELSE _atomic_write_json(fs, queue_data, outcome)

----------------------------------------------------------------------------
(* store/queue_store.py: lookups.  Strings are sequences of characters;    *)
(* positions are the code's 0-based ones and -1 stands for "raised".       *)

\* str.endswith
endswith(rp, token) ==
    /\ Len(token) <= Len(rp)
    /\ SubSeq(rp, Len(rp) - Len(token) + 1, Len(rp)) = token

\* The 0-based position at which a for loop returns when S holds the
\* (1-based) positions that satisfy its test, -1 if it runs to the end.
FirstOf(S) == IF S = {} THEN -1 ELSE (CHOOSE i \in S : \A j \in S : i <= j) - 1

\* (mutant of first_pending_index) an item without a status counts as pending
first_pending_index_default_pending(its) ==
    LET i == FirstOf({k \in 1..Len(its) : its[k].status = Absent
                                           \/ its[k].status = Str("pending")})
    IN  IF i >= 0 THEN i ELSE 0

first_pending_index(its) ==
    LET i == FirstOf({k \in 1..Len(its) : Get(its[k], "status") = Str("pending")})
    IN  IF i >= 0 THEN i ELSE 0

\* (mutant of find_index) one loop that returns at the first relpath that
\* equals the token or ends with it
find_index_one_pass(its, token) ==
    IF token.t = "int"
    THEN IF 0 <= token.n /\ token.n < Len(its)
         THEN [exc |-> "none", idx |-> token.n]
         ELSE [exc |-> "ValueError", idx |-> -1]
    ELSE LET Either(it) == \/ Get(it, "relpath") = Str(token.s)
                           \/ (IsStr(it.relpath) /\ endswith(it.relpath[2], token.s))
             x == FirstOf({k \in 1..Len(its) : Either(its[k])})
         IN  IF x >= 0 THEN [exc |-> "none", idx |-> x]
             ELSE [exc |-> "ValueError", idx |-> -1]

\* token = [t |-> "int", n |-> ...] or [t |-> "str", s |-> ...]
find_index(its, token) ==
    IF token.t = "int"
    THEN IF 0 <= token.n /\ token.n < Len(its)
         THEN [exc |-> "none", idx |-> token.n]
         ELSE [exc |-> "ValueError", idx |-> -1]
    ELSE LET Exact(it)  == Get(it, "relpath") = Str(token.s)
             Suffix(it) == LET rp == IF it.relpath = Absent THEN Str(<<>>) ELSE it.relpath
                           IN  IsStr(rp) /\ endswith(rp[2], token.s)
             e == FirstOf({k \in 1..Len(its) : Exact(its[k])})
             x == FirstOf({k \in 1..Len(its) : Suffix(its[k])})
         IN  IF e >= 0 THEN [exc |-> "none", idx |-> e]
             ELSE IF x >= 0 THEN [exc |-> "none", idx |-> x]
             ELSE [exc |-> "ValueError", idx |-> -1]

\* str.isdigit and int() on a string of the digits the model has
Digits == {"0", "1"}
DigitVal(c) == IF c = "1" THEN 1 ELSE 0
isdigit(str) == Len(str) > 0 /\ \A i \in 1..Len(str) : str[i] \in Digits
RECURSIVE int(_)
int(str) ==
    IF str = <<>> THEN 0
    ELSE 10 * int(SubSeq(str, 1, Len(str) - 1)) + DigitVal(str[Len(str)])

\* cli.py 197-204: the start index of queue_review_cmd, or the failure that
\* ends the command with exit code 2
start_index_of(its, start_from) ==
    IF start_from.t = "none"
    THEN [exc |-> "none", idx |-> first_pending_index(its)]
    ELSE IF isdigit(start_from.s)
         THEN [exc |-> "none", idx |-> int(start_from.s)]
         ELSE LET r == find_index(its, start_from) IN
              IF r.exc # "none" THEN [exc |-> "Exit", idx |-> -1] ELSE r

\* review.py 82: where review_loop puts the index it is given
initial_index(its, start_index) == Max(0, Min(start_index, Len(its) - 1))

----------------------------------------------------------------------------
(* cli.py and queue_cmd.py: the scanners and the queue builders.  A tree   *)
(* is the sequence of the files under the root, in the order the directory *)
(* walk meets them.  A file has the names of the directories between the   *)
(* root and it, whether its suffix is one of exts, its modification time   *)
(* and its fingerprint, "none" when the image does not decode.  Files are  *)
(* named by their position in the tree.                                    *)

File(dirs, img, mtime, phash) ==
    [dirs |-> dirs, img |-> img, mtime |-> mtime, phash |-> phash]

StateDirName == <<".", "i", "r", "e", "f">>

\* str.lower on the letters the model has
LowerChar(c) ==
    CASE c = "I" -> "i" [] c = "R" -> "r" [] c = "E" -> "e" [] c = "F" -> "f"
      [] OTHER -> c
lower(name) == [i \in 1..Len(name) |-> LowerChar(name[i])]

\* str.startswith
startswith(name, prefix) ==
    Len(prefix) <= Len(name) /\ SubSeq(name, 1, Len(prefix)) = prefix

\* cli.py 45-52, on the name of the directory
is_hidden_or_system_dir(name) ==
    \/ startswith(name, <<".">>)
    \/ lower(name) = StateDirName

\* The members of a set of positions in increasing order.
InOrder(S) ==
    [k \in 1..Cardinality(S) |-> CHOOSE p \in S : Cardinality({q \in S : q < p}) = k - 1]

\* cli.py 54-62: os.walk does not descend into a directory taken out of
\* dirnames, so a file is met when no directory above it is hidden.
iter_image_files(t) ==
    InOrder({i \in 1..Len(t) :
                /\ \A k \in 1..Len(t[i].dirs) : ~is_hidden_or_system_dir(t[i].dirs[k])
                /\ t[i].img})

\* queue_cmd.py 12-15: rglob("*") descends into every directory
_image_files(t) == InOrder({i \in 1..Len(t) : t[i].img})

\* (mutant of sorted_newest_first) the sort without reverse=True
sorted_oldest_first(t, files) ==
    LET S == {files[k] : k \in 1..Len(files)}
        before(q, p) == \/ t[q].mtime < t[p].mtime
                        \/ (t[q].mtime = t[p].mtime /\ q < p)
    IN  [k \in 1..Len(files) |->
            CHOOSE p \in S : Cardinality({q \in S : before(q, p)}) = k - 1]

\* queue_cmd.py 34: files.sort(key=mtime, reverse=True), a stable sort:
\* files of equal mtime keep the order they were met in
sorted_newest_first(t, files) ==
    LET S == {files[k] : k \in 1..Len(files)}
        before(q, p) == \/ t[q].mtime > t[p].mtime
                        \/ (t[q].mtime = t[p].mtime /\ q < p)
    IN  [k \in 1..Len(files) |->
            CHOOSE p \in S : Cardinality({q \in S : before(q, p)}) = k - 1]

\* The number of queued items in a list of built items.
QueuedCount(its) == Cardinality({i \in 1..Len(its) : its[i].status = "queued"})

\* (mutant of process_file) the fingerprint of a queued file is not added
\* to the seen-set
process_file_no_add(t, acc, p, limit) ==
    IF acc.stop THEN acc
    ELSE LET h == t[p].phash IN
         IF h = "none" THEN acc
         ELSE IF h \in acc.seen
              THEN [acc EXCEPT !.items = Append(@, [pos |-> p, status |-> "skipped-duplicate"])]
              ELSE LET its == Append(acc.items, [pos |-> p, status |-> "queued"]) IN
                   [acc EXCEPT !.items = its,
                               !.stop = (limit # 0 /\ QueuedCount(its) >= limit)]

\* (mutant of process_file) the cap counts every item, duplicates included
process_file_cap_counts_all(t, acc, p, limit) ==
    IF acc.stop THEN acc
    ELSE LET h == t[p].phash IN
         IF h = "none" THEN acc
         ELSE IF h \in acc.seen
              THEN LET its == Append(acc.items, [pos |-> p, status |-> "skipped-duplicate"]) IN
                   [acc EXCEPT !.items = its, !.stop = (limit # 0 /\ Len(its) >= limit)]
              ELSE LET its == Append(acc.items, [pos |-> p, status |-> "queued"]) IN
                   [acc EXCEPT !.items = its, !.seen = acc.seen \cup {h},
                               !.stop = (limit # 0 /\ Len(its) >= limit)]

\* queue_cmd.py 36-49, the body of the loop for the file p; acc.stop says
\* the loop has reached its break.  limit = 0 stands for None and 0.
process_file(t, acc, p, limit) ==
    IF acc.stop THEN acc
    ELSE LET h == t[p].phash IN
         IF h = "none" THEN acc
         ELSE IF h \in acc.seen
              THEN [acc EXCEPT !.items = Append(@, [pos |-> p, status |-> "skipped-duplicate"])]
              ELSE LET its == Append(acc.items, [pos |-> p, status |-> "queued"]) IN
                   [acc EXCEPT !.items = its, !.seen = acc.seen \cup {h},
                               !.stop = (limit # 0 /\ QueuedCount(its) >= limit)]

RECURSIVE build_loop(_, _, _, _, _)
build_loop(t, files, k, limit, acc) ==
    IF k > Len(files) THEN acc
    ELSE build_loop(t, files, k + 1, limit, process_file(t, acc, files[k], limit))

\* queue_cmd.py 24-50
build_queue(t, limit, seen_hashes) ==
    build_loop(t, sorted_newest_first(t, _image_files(t)), 1, limit,
               [items |-> <<>>, seen |-> seen_hashes, stop |-> FALSE, errors |-> 0])

\* cli.py 139-148, the body of the scan's loop for the file p:
\* get_image_info gives no info for a file that does not decode
scan_file(t, acc, p, limit) ==
    IF acc.stop THEN acc
    ELSE IF t[p].phash # "none"
         THEN LET its == Append(acc.items, [pos |-> p, status |-> "none"]) IN
              [acc EXCEPT !.items = its, !.stop = (limit # 0 /\ Len(its) >= limit)]
         ELSE [acc EXCEPT !.errors = @ + 1]

RECURSIVE scan_loop(_, _, _, _, _)
scan_loop(t, files, k, limit, acc) ==
    IF k > Len(files) THEN acc
    ELSE scan_loop(t, files, k + 1, limit, scan_file(t, acc, files[k], limit))

\* cli.py 136-148
queue_scan_cmd(t, limit) ==
    scan_loop(t, iter_image_files(t), 1, limit,
              [items |-> <<>>, seen |-> {}, stop |-> FALSE, errors |-> 0])

----------------------------------------------------------------------------
(* Values of the variables a specification does not use *)

RetNone ==
    [op |-> "none", exc |-> "none", fault |-> "ok", argvalid |-> TRUE, wrote |-> FALSE,
     tunchanged |-> TRUE, sunchanged |-> TRUE, data |-> QueueDoc(<<>>)]
HistNone ==
    [act |-> "none", idx |-> 0, status |-> Null, decided_at |-> Null, dirty |-> FALSE,
     exc |-> "none", flushexc |-> "none", exit |-> "none", decisions |-> 0,
     undos |-> 0, initial |-> <<>>]
TokNone == [t |-> "none", n |-> 0, s |-> <<>>]
ResNone == [op |-> "none", exc |-> "none", idx |-> 0, started |-> -1]

ReviewIdle ==
    /\ items = <<>> /\ index = 0 /\ show_help = FALSE /\ last_ops = <<>>
    /\ pc = "idle" /\ auto_open = FALSE /\ now = 0 /\ opened = -1 /\ hist = HistNone
BuiltNone ==
    [op |-> "none", limit |-> 0, seen0 |-> {}, items |-> <<>>, seen |-> {}, errors |-> 0]

StoreIdle == ret = RetNone /\ scan = "idle"
FindIdle  == tok = TokNone /\ res = ResNone
BuildIdle == tree = <<>> /\ built = BuiltNone

----------------------------------------------------------------------------
(* Spec: one review session.  queue_review_cmd has loaded the queue, given *)
(* every item a status and saved it; review_loop then handles one input    *)
(* per step.                                                               *)

Decisions == {"accepted", "stashed", "rejected"}

RelNames == <<"a", "b", "c", "d">>
RelOf(i) == Str(<<RelNames[i]>>)

\* (status, decided_at) of an item when the session starts: not yet decided
\* (queue_review_cmd fills in "pending" and null), or decided in an earlier
\* session.
InitItemStates == {<<Str("pending"), Null>>, <<Str("accepted"), Str(0)>>}

\* The item of a session's queue at position i: what the scan recorded of
\* the file (its relpath, its width) and its status and decided_at.
SessionItem(i, st, dt) == [Item(RelOf(i), st, dt) EXCEPT !.width = Num]

InitQueues ==
    UNION {{[i \in 1..n |-> SessionItem(i, f[i][1], f[i][2])] : f \in [1..n -> InitItemStates]}
           : n \in 0..MaxItems}

\* What a viewer request can meet; with --no-open _open does nothing.
ViewerOutcomes == IF auto_open THEN {"ok", "raises"} ELSE {"ok"}

\* The faults a flush of the session meets: none, a failed write that is
\* cleaned up, and Ctrl+C in the middle of the write.
FlushOutcomes == {"ok", "replace_fails", "interrupted"}

Init ==
    /\ items \in InitQueues
    /\ index = 0
    /\ show_help = FALSE
    /\ last_ops = <<>>
    /\ pc = "start"
    /\ auto_open \in BOOLEAN
    /\ now = 1
    /\ opened = -1
    /\ hist = [HistNone EXCEPT !.initial = items]
    /\ target = dumps(QueueDoc(items))
    /\ strays = 0
    /\ StoreIdle /\ FindIdle /\ BuildIdle

\* The session as a record: what a handler starts from and what it returns.
\*   exc       the exception the handler's body raised, "none" if none
\*   dirty     an item was changed since flush was last called
\*   flushexc  what the flush of the finally block raised
\*   exit      why the loop ended
Here ==
    [items |-> items, index |-> index, show_help |-> show_help, last_ops |-> last_ops,
     target |-> target, strays |-> strays, pc |-> "await", opened |-> -1,
     exc |-> "none", dirty |-> hist.dirty, flushexc |-> "none", exit |-> "none"]

\* cli.py _flush
_flush(s, outcome) ==
    save_all([target |-> s.target, strays |-> s.strays], QueueDoc(s.items), outcome)

Flushed(s, outcome) ==
    LET w == _flush(s, outcome) IN
    [s EXCEPT !.target = w.target, !.strays = w.strays, !.exc = w.exc, !.dirty = FALSE]

\* cli.py _open, called for the 0-based position i: with --no-open it
\* returns at once; otherwise open_image raises when the file is missing or
\* the viewer cannot be started.
_open(s, i, vo) ==
    [s EXCEPT !.opened = i,
              !.exc = IF auto_open /\ vo = "raises" THEN "FileNotFoundError" ELSE "none"]

\* (mutant of _save) the stored item is rebuilt from the fields the review
\* loop reads instead of copied
_save_known_fields(s, i, new_item) ==
    [s EXCEPT !.items[i + 1] = Item(new_item.relpath, new_item.status, new_item.decided_at),
              !.dirty = TRUE]

\* cli.py _save: items[i] = dict(new_item)
_save(s, i, new_item) == [s EXCEPT !.items[i + 1] = new_item, !.dirty = TRUE]

\* (mutant of finally) flush() placed after the try statement instead of in
\* its finally block: an exception on its way out skips it
finally_after_try(s, o2) ==
    IF s.exc # "none" THEN [s EXCEPT !.pc = "raised"]
    ELSE LET w == _flush(s, o2) IN
         [s EXCEPT !.target = w.target, !.strays = w.strays, !.dirty = FALSE,
                   !.flushexc = w.exc, !.exc = w.exc,
                   !.pc = IF w.exc # "none" THEN "raised" ELSE "done"]

\* review_loop's finally block, entered with s.exc pending
finally(s, o2) ==
    LET w == _flush(s, o2) IN
    [s EXCEPT !.target = w.target, !.strays = w.strays, !.dirty = FALSE,
              !.flushexc = w.exc,
              !.exc = IF w.exc # "none" THEN w.exc ELSE s.exc,
              !.pc = IF w.exc # "none" \/ s.exc # "none" THEN "raised" ELSE "done"]

\* except KeyboardInterrupt: pass
except_KeyboardInterrupt(s) ==
    IF s.exc = "KeyboardInterrupt" THEN [s EXCEPT !.exc = "none"] ELSE s

\* After a handler's body: back to the loop test, or out through the
\* except clause and the finally block; review_loop's ReviewState is gone
\* once it has returned or raised (its show_help and last_ops are reset here).
loop(s, quit, o2) ==
    IF s.exc = "none" /\ ~quit /\ 0 <= s.index /\ s.index < Len(s.items)
    THEN s
    ELSE finally(except_KeyboardInterrupt(
                     [s EXCEPT !.show_help = FALSE, !.last_ops = <<>>,
                               !.exit = IF s.exc = "KeyboardInterrupt" THEN "interrupt"
                                        ELSE IF s.exc # "none" THEN "callback"
                                        ELSE IF quit THEN "quit"
                                        ELSE IF Len(s.items) = 0 THEN "empty"
                                        ELSE "exhausted"]), o2)

\* review.py 82-85
on_start(s, start_index, vo) ==
    LET s1 == [s EXCEPT !.index = Max(0, Min(start_index, Len(s.items) - 1))] IN
    IF auto_open /\ Len(s.items) > 0 THEN _open(s1, s1.index, vo) ELSE s1

\* (mutant of on_decision) the decision branch without its flush()
on_decision_no_flush(s, act, t, vo, fo) ==
    LET cur  == s.items[s.index + 1]
        s1   == [s EXCEPT !.last_ops = Append(s.last_ops,
                              <<s.index, Get(cur, "status"), Get(cur, "decided_at")>>)]
        s2   == _save(s1, s.index, [cur EXCEPT !.status = Str(act), !.decided_at = Str(t)])
        s3   == [s2 EXCEPT !.index = s.index + 1]
    IN  IF s3.index < Len(s3.items) /\ auto_open THEN _open(s3, s3.index, vo) ELSE s3

\* (mutant of on_decision) the entry pushed holds the status and decided_at
\* read after the assignment instead of before
on_decision_pushes_new(s, act, t, vo, fo) ==
    LET cur  == s.items[s.index + 1]
        s1   == [s EXCEPT !.last_ops = Append(s.last_ops, <<s.index, Str(act), Str(t)>>)]
        s2   == _save(s1, s.index, [cur EXCEPT !.status = Str(act), !.decided_at = Str(t)])
        s3   == [s2 EXCEPT !.index = s.index + 1]
        s4   == IF s3.index < Len(s3.items) /\ auto_open THEN _open(s3, s3.index, vo) ELSE s3
    IN  IF s4.exc # "none" THEN s4 ELSE Flushed(s4, fo)

\* (mutant of on_decision) the viewer is requested for the next item without
\* the test of auto_open
on_decision_opens_regardless(s, act, t, vo, fo) ==
    LET cur  == s.items[s.index + 1]
        s1   == [s EXCEPT !.last_ops = Append(s.last_ops,
                              <<s.index, Get(cur, "status"), Get(cur, "decided_at")>>)]
        s2   == _save(s1, s.index, [cur EXCEPT !.status = Str(act), !.decided_at = Str(t)])
        s3   == [s2 EXCEPT !.index = s.index + 1]
        s4   == IF s3.index < Len(s3.items) THEN _open(s3, s3.index, vo) ELSE s3
    IN  IF s4.exc # "none" THEN s4 ELSE Flushed(s4, fo)

\* review.py 113-125
on_decision(s, act, t, vo, fo) ==
    LET cur  == s.items[s.index + 1]
        s1   == [s EXCEPT !.last_ops = Append(s.last_ops,
                              <<s.index, Get(cur, "status"), Get(cur, "decided_at")>>)]
        s2   == _save(s1, s.index, [cur EXCEPT !.status = Str(act), !.decided_at = Str(t)])
        s3   == [s2 EXCEPT !.index = s.index + 1]
        s4   == IF s3.index < Len(s3.items) /\ auto_open THEN _open(s3, s3.index, vo) ELSE s3
    IN  IF s4.exc # "none" THEN s4 ELSE Flushed(s4, fo)

\* (mutant of on_undo) the entry is restored but the index stays where it was
on_undo_keeps_index(s, fo) ==
    IF s.last_ops = <<>> THEN s
    ELSE LET op   == s.last_ops[Len(s.last_ops)]
             s1   == [s EXCEPT !.last_ops = SubSeq(s.last_ops, 1, Len(s.last_ops) - 1)]
             cur2 == [s.items[op[1] + 1] EXCEPT !.status = op[2], !.decided_at = op[3]]
             s2   == _save(s1, op[1], cur2)
         IN  Flushed(s2, fo)

\* review.py 103-111; with an empty history Undo matches no branch
on_undo(s, fo) ==
    IF s.last_ops = <<>> THEN s
    ELSE LET op   == s.last_ops[Len(s.last_ops)]
             s1   == [s EXCEPT !.last_ops = SubSeq(s.last_ops, 1, Len(s.last_ops) - 1)]
             cur2 == [s.items[op[1] + 1] EXCEPT !.status = op[2], !.decided_at = op[3]]
             s2   == _save(s1, op[1], cur2)
             s3   == [s2 EXCEPT !.index = op[1]]
         IN  Flushed(s3, fo)

\* review.py 127-131
on_next(s, vo) ==
    LET s1 == [s EXCEPT !.index = Min(Len(s.items) - 1, s.index + 1)] IN
    IF auto_open THEN _open(s1, s1.index, vo) ELSE s1

\* review.py 133-137
on_prev(s, vo) ==
    LET s1 == [s EXCEPT !.index = Max(0, s.index - 1)] IN
    IF auto_open THEN _open(s1, s1.index, vo) ELSE s1

\* review.py 99-101
on_reopen(s, vo) == _open(s, s.index, vo)

\* review.py 96-98
on_help(s) == [s EXCEPT !.show_help = ~s.show_help]

\* The loop ends after a handler's body that returned s.
Leaves(s, quit) == ~(s.exc = "none" /\ ~quit /\ 0 <= s.index /\ s.index < Len(s.items))

\* The step: the session becomes r; h is what hist remembers of the input.
Becomes(r, h) ==
    /\ items' = r.items
    /\ index' = r.index
    /\ show_help' = r.show_help
    /\ last_ops' = r.last_ops
    /\ pc' = r.pc
    /\ opened' = r.opened
    /\ target' = r.target
    /\ strays' = r.strays
    /\ hist' = [h EXCEPT !.dirty = r.dirty, !.exc = r.exc, !.flushexc = r.flushexc,
                         !.exit = r.exit]
    /\ UNCHANGED <<auto_open, storeVars, findVars, buildVars>>

\* hist keeps, for the whole session, the number of decisions, the number
\* of Undos that found an entry, and the queue as it was at session start.
Saw(act) ==
    [HistNone EXCEPT !.act = act, !.decisions = hist.decisions,
                     !.undos = hist.undos + (IF act = "undo" /\ last_ops # <<>> THEN 1 ELSE 0),
                     !.initial = hist.initial]

\* One input handled: the body returned s; the finally block's flush meets o2.
Step(s, quit, h) ==
    \E o2 \in (IF Leaves(s, quit) THEN FlushOutcomes ELSE {"ok"}) :
        Becomes(loop(s, quit, o2), h)

Begin ==
    /\ pc = "start"
    /\ \E start_index \in -1..MaxItems, vo \in ViewerOutcomes :
          Step(on_start(Here, start_index, vo), FALSE, Saw("start"))
    /\ UNCHANGED now

KeyDecision(act) ==
    /\ pc = "await"
    /\ hist.decisions < MaxDecisions
    /\ \E t \in {now + 1}, vo \in ViewerOutcomes, fo \in FlushOutcomes :
          /\ now' = t
          /\ Step(on_decision(Here, act, t, vo, fo), FALSE,
                  [hist EXCEPT !.act = act, !.idx = index,
                               !.decisions = hist.decisions + 1,
                               !.status = Get(items[index + 1], "status"),
                               !.decided_at = Get(items[index + 1], "decided_at")])

KeyUndo ==
    /\ pc = "await"
    /\ \E fo \in FlushOutcomes : Step(on_undo(Here, fo), FALSE, Saw("undo"))
    /\ UNCHANGED now

KeyNext ==
    /\ pc = "await"
    /\ \E vo \in ViewerOutcomes : Step(on_next(Here, vo), FALSE, Saw("next"))
    /\ UNCHANGED now

KeyPrev ==
    /\ pc = "await"
    /\ \E vo \in ViewerOutcomes : Step(on_prev(Here, vo), FALSE, Saw("prev"))
    /\ UNCHANGED now

KeyReopen ==
    /\ pc = "await"
    /\ \E vo \in ViewerOutcomes : Step(on_reopen(Here, vo), FALSE, Saw("reopen"))
    /\ UNCHANGED now

KeyHelp ==
    /\ pc = "await"
    /\ Step(on_help(Here), FALSE, Saw("help"))
    /\ UNCHANGED now

KeyNone ==
    /\ pc = "await"
    /\ Step(Here, FALSE, Saw("none"))
    /\ UNCHANGED now

KeyQuit ==
    /\ pc = "await"
    /\ Step(Here, TRUE, Saw("quit"))
    /\ UNCHANGED now

\* Ctrl+C while read_action waits for a key
Interrupt ==
    /\ pc = "await"
    /\ Step([Here EXCEPT !.exc = "KeyboardInterrupt"], FALSE, Saw("interrupt"))
    /\ UNCHANGED now

Next ==
    \/ Begin
    \/ \E act \in Decisions : KeyDecision(act)
    \/ KeyUndo
    \/ KeyNext
    \/ KeyPrev
    \/ KeyReopen
    \/ KeyHelp
    \/ KeyNone
    \/ KeyQuit
    \/ Interrupt

Spec == Init /\ [][Next]_vars

----------------------------------------------------------------------------
(* Claims about the review session *)

StatusOf(its, i) == Get(its[i + 1], "status")
DecidedAtOf(its, i) == Get(its[i + 1], "decided_at")

\* The last input was a decision and nothing failed while it was handled.
JustDecided == hist.act \in Decisions /\ hist.exc = "none" /\ hist.flushexc = "none"

\* C1: an Undo right after a decision on item i, the last item of the queue
\* included, is handled by the loop and leaves item i with the status and
\* decided_at it had before the decision, and the index at i.
C1_UndoAfterAnyDecision ==
    JustDecided =>
        /\ pc = "await"
        /\ LET u == on_undo(Here, "ok") IN
           /\ u.index = hist.idx
           /\ StatusOf(u.items, hist.idx) = hist.status
           /\ DecidedAtOf(u.items, hist.idx) = hist.decided_at

\* C2: a decision changes an item's status only when that status was
\* pending or queued, never from one of accepted, stashed, rejected.
C2_DecisionOnlyFromUndecided ==
    hist.act \in Decisions => hist.status \in {Str("pending"), Str("queued")}

\* C3: whenever the loop waits for the next input, every item of the stored
\* document has the status and decided_at of the item in memory.
C3_PersistedBeforeNextInput ==
    pc = "await" =>
        /\ target.st = "json"
        /\ LET stored == loads(target).data IN
           /\ stored.isdict /\ stored.items_t = "list"
           /\ Len(stored.items) = Len(items)
           /\ \A i \in 1..Len(items) :
                 /\ stored.items[i].status = items[i].status
                 /\ stored.items[i].decided_at = items[i].decided_at

\* C3's case: the loop waits for input after the second decision of the
\* session has been applied.
C3_Witness ==
    /\ pc = "await" /\ hist.act \in Decisions /\ hist.decisions = 2
    /\ StatusOf(items, hist.idx) = Str(hist.act)

\* C4: when review_loop has ended, by whichever path, flush has been called
\* after the last change of an item; and if that flush did not fail the
\* stored document is the queue in memory.
C4_FlushOnEveryExit ==
    pc \in {"done", "raised"} =>
        /\ ~hist.dirty
        /\ hist.flushexc = "none" => target = dumps(QueueDoc(items))

\* C4's case: a decision has changed an item, the viewer request that
\* follows raised before the branch's own flush, and the exception left
\* review_loop.
C4_Witness ==
    /\ pc = "raised" /\ hist.exit = "callback" /\ hist.act \in Decisions
    /\ hist.exc = "FileNotFoundError"
    /\ StatusOf(items, hist.idx) = Str(hist.act)

----------------------------------------------------------------------------
(* SpecStore: the queue store and the files of the state directory *)

RelVals    == {Absent, Num, Str(<<"a">>)}
StatusVals == {Absent, Null, Num, Str("pending")}
DtVals     == {Absent, Null, Num, Str(1)}

BaseItem == Item(Str(<<"a">>), Str("pending"), Null)

\* Items that differ from a valid item in at most one field, and a non-object.
ItemSamples ==
    {[BaseItem EXCEPT !.relpath = v] : v \in RelVals}
    \cup {[BaseItem EXCEPT !.status = v] : v \in StatusVals}
    \cup {[BaseItem EXCEPT !.decided_at = v] : v \in DtVals}
    \cup {NonDictItem}

ItemLists == UNION {[1..n -> ItemSamples] : n \in 0..MaxDocItems}

Docs ==
    {Payload(FALSE, "absent", <<>>), Payload(TRUE, "absent", <<>>),
     Payload(TRUE, "notlist", <<>>)}
    \cup {QueueDoc(its) : its \in ItemLists}

FileContents == {FileAbsent, FileGarbage} \cup {dumps(d) : d \in Docs}

\* get_image_info: what a scan records of a file (no status, no decided_at)
ScannedItem == [Item(Str(<<"a">>), Absent, Absent) EXCEPT !.width = Num]
\* cli.save_queue's payload: an object with the scanned items
CliScanPayload(n) == QueueDoc([i \in 1..n |-> ScannedItem])
\* queue_cmd.save_queue's payload: a top-level list
BuilderPayload == Payload(FALSE, "absent", <<>>)

InitStore ==
    /\ target \in FileContents
    /\ strays = 0
    /\ ret = RetNone
    /\ scan = "idle"
    /\ ReviewIdle /\ FindIdle /\ BuildIdle

FS == [target |-> target, strays |-> strays]

LoadQueue ==
    /\ LET r == load_queue(FS) IN
       ret' = [RetNone EXCEPT !.op = "load_queue", !.exc = r.exc, !.data = r.data]
    /\ UNCHANGED <<target, strays, scan>>
    /\ UNCHANGED <<reviewVars, findVars, buildVars>>

\* The record of a save: w is what the store call returned.
SaveRet(op, w, fault, argvalid, wrote) ==
    [RetNone EXCEPT !.op = op, !.exc = w.exc, !.fault = fault, !.argvalid = argvalid,
                    !.wrote = wrote,
                    !.tunchanged = (w.target = target),
                    !.sunchanged = (w.strays = strays)]

SaveAll(doc, outcome) ==
    /\ scan = "idle"
    /\ strays < MaxStrays
    /\ LET w == save_all(FS, doc, outcome) IN
       /\ target' = w.target
       /\ strays' = w.strays
       /\ ret' = SaveRet("save_all", w, outcome, _validate_queue_payload(doc) = "ok",
                         _validate_queue_payload(doc) = "ok")
    /\ UNCHANGED scan
    /\ UNCHANGED <<reviewVars, findVars, buildVars>>

SaveItem(idx, new_item, outcome) ==
    /\ scan = "idle"
    /\ strays < MaxStrays
    /\ LET w == save_item(FS, idx, new_item, outcome)
           q == load_queue(FS) IN
       /\ target' = w.target
       /\ strays' = w.strays
       /\ ret' = SaveRet("save_item", w, outcome, ItemValid(new_item),
                         q.exc = "none" /\ 0 <= idx /\ idx < Len(q.data.items))
    /\ UNCHANGED scan
    /\ UNCHANGED <<reviewVars, findVars, buildVars>>

\* Path.write_bytes opens the file for writing, which truncates it ...
ScanOpen(writer) ==
    /\ scan = "idle"
    /\ scan' = writer
    /\ target' = FilePartial
    /\ ret' = RetNone
    /\ UNCHANGED strays
    /\ UNCHANGED <<reviewVars, findVars, buildVars>>

\* ... and then writes the bytes and closes it.
ScanWrite ==
    /\ scan # "idle"
    /\ \E n \in 0..MaxDocItems :
          target' = dumps(IF scan = "cli" THEN CliScanPayload(n) ELSE BuilderPayload)
    /\ scan' = "idle"
    /\ ret' = RetNone
    /\ UNCHANGED strays
    /\ UNCHANGED <<reviewVars, findVars, buildVars>>

\* The write fails, or the process is killed, before the bytes are written.
ScanCrash ==
    /\ scan # "idle"
    /\ scan' = "idle"
    /\ UNCHANGED <<target, strays, ret>>
    /\ UNCHANGED <<reviewVars, findVars, buildVars>>

NextStore ==
    \/ LoadQueue
    \/ \E doc \in Docs, outcome \in WriteOutcomes : SaveAll(doc, outcome)
    \/ \E idx \in -1..MaxDocItems, new_item \in ItemSamples, outcome \in WriteOutcomes :
          SaveItem(idx, new_item, outcome)
    \/ \E writer \in {"cli", "builder"} : ScanOpen(writer)
    \/ ScanWrite
    \/ ScanCrash

SpecStore == InitStore /\ [][NextStore]_vars

----------------------------------------------------------------------------
(* Claims about the queue store *)

IsSave == ret.op \in {"save_all", "save_item"}

\* C5: a write of the queue document that fails at any step, an interruption
\* in the middle of the write included, leaves the saved document unchanged,
\* leaves no temporary file behind and propagates the error.
C5_FailedWriteCleansUp ==
    (IsSave /\ ret.wrote /\ ret.fault # "ok") =>
        (ret.tunchanged /\ ret.sunchanged /\ ret.exc # "none")

\* C6: every write of queue.json, the scan's initial write included, replaces
\* the file atomically: the file never holds a partial document.
C6_NeverPartialDocument == target.st # "partial"

\* C7: after a successful save_all or save_item the stored document loads
\* again, and a save of a document or item that violates the schema is
\* refused and leaves the stored document unchanged.
C7_SaveEnforcesSchema ==
    IsSave =>
        /\ (ret.exc = "none" => load_queue(FS).exc = "none")
        /\ (~ret.argvalid => (ret.exc # "none" /\ ret.tunchanged))

\* The schema violations C8 lists, read off the stored bytes.
C8_ItemViolates(item) ==
    \/ ~item.isdict
    \/ item.relpath = Absent \/ ~IsStr(item.relpath)
    \/ (item.status # Absent /\ ~IsStr(item.status))
    \/ (item.decided_at # Absent /\ ~IsStr(item.decided_at) /\ item.decided_at # Null)
C8_FileViolates(file) ==
    \/ file.st # "json"
    \/ ~loads(file).data.isdict
    \/ loads(file).data.items_t # "list"
    \/ \E i \in 1..Len(loads(file).data.items) : C8_ItemViolates(loads(file).data.items[i])

\* C8: load_queue fails with NotFound when there is no document, fails with
\* InvalidFormat when the bytes do not parse or break the schema (a status
\* that is present and not a string included), and returns the document
\* only otherwise.
C8_LoadRejectsInvalid ==
    ret.op = "load_queue" =>
        /\ (target.st = "absent" => ret.exc = "FileNotFoundError")
        /\ (target.st # "absent" /\ C8_FileViolates(target) => ret.exc = "ValueError")
        /\ (ret.exc = "none" =>
                (target.st = "json" /\ ~C8_FileViolates(target)
                 /\ ret.data = loads(target).data))

----------------------------------------------------------------------------
(* SpecFind: find_index and the resolution of --start-from, on every small *)
(* queue and token                                                         *)

Chars == {"a", "1"}
Strings == UNION {[1..n -> Chars] : n \in 0..MaxStrLen}
RelPaths == Strings \ {<<>>}

FindQueues ==
    UNION {{[i \in 1..n |-> Item(Str(f[i]), Str("pending"), Null)] : f \in [1..n -> RelPaths]}
           : n \in 0..MaxQueue}

Tokens ==
    {[t |-> "str", n |-> 0, s |-> str] : str \in Strings}
    \cup {[t |-> "int", n |-> k, s |-> <<>>] : k \in -1..(MaxQueue + 1)}
    \cup {TokNone}

InitFind ==
    /\ items \in FindQueues
    /\ tok \in Tokens
    /\ res = ResNone
    /\ index = 0 /\ show_help = FALSE /\ last_ops = <<>> /\ pc = "idle"
    /\ auto_open = FALSE /\ now = 0 /\ opened = -1 /\ hist = HistNone
    /\ target = FileAbsent /\ strays = 0
    /\ StoreIdle /\ BuildIdle

FindIndex ==
    /\ tok.t \in {"str", "int"}
    /\ LET r == find_index(items, tok) IN
       res' = [op |-> "find_index", exc |-> r.exc, idx |-> r.idx, started |-> -1]
    /\ UNCHANGED <<reviewVars, fsVars, storeVars, tok, buildVars>>

\* queue_review_cmd from its step 3 on, up to review_loop's first line; the
\* command has returned before that when the queue is empty
StartReview ==
    /\ tok.t \in {"str", "none"}
    /\ Len(items) > 0
    /\ LET r == start_index_of(items, tok) IN
       res' = [op |-> "start", exc |-> r.exc, idx |-> r.idx,
               started |-> IF r.exc = "none" THEN initial_index(items, r.idx) ELSE -1]
    /\ UNCHANGED <<reviewVars, fsVars, storeVars, tok, buildVars>>

NextFind == FindIndex \/ StartReview

SpecFind == InitFind /\ [][NextFind]_vars

----------------------------------------------------------------------------
(* Claims about lookups *)

RelEq(i, str) == items[i].relpath = Str(str)
UniqueRelpaths == \A i, j \in 1..Len(items) : items[i].relpath = items[j].relpath => i = j

\* C9: for a string token equal to the relpath of some item, find_index
\* returns the position of an item with that relpath, the first one (so the
\* position of that very item when relpaths are unique), also when an
\* earlier item's relpath only ends with the token; a position whose relpath
\* only ends with the token is returned only when no relpath equals it.
C9_ExactMatchPreferred ==
    (res.op = "find_index" /\ tok.t = "str") =>
        /\ (\E i \in 1..Len(items) : RelEq(i, tok.s)) =>
              /\ res.exc = "none"
              /\ RelEq(res.idx + 1, tok.s)
              /\ \A j \in 1..res.idx : ~RelEq(j, tok.s)
              /\ UniqueRelpaths => \A i \in 1..Len(items) : RelEq(i, tok.s) => res.idx + 1 = i
        /\ (res.exc = "none" /\ ~RelEq(res.idx + 1, tok.s)) =>
              /\ \A i \in 1..Len(items) : ~RelEq(i, tok.s)
              /\ endswith(items[res.idx + 1].relpath[2], tok.s)

\* C9's case: an earlier item's relpath ends with the token, a later item's
\* relpath equals it, and the later position is returned.
C9_Witness ==
    /\ res.op = "find_index" /\ tok.t = "str" /\ res.exc = "none"
    /\ res.idx = 1
    /\ RelEq(2, tok.s) /\ ~RelEq(1, tok.s)
    /\ endswith(items[1].relpath[2], tok.s)

\* C10: a numeric start token n starts the session at position n when
\* 0 <= n < length and fails otherwise; a string token that matches no
\* relpath, exactly or by suffix, fails; the session starts nowhere else.
C10_StartTokenBoundsChecked ==
    (res.op = "start" /\ tok.t = "str") =>
        IF isdigit(tok.s)
        THEN IF int(tok.s) < Len(items)
             THEN res.exc = "none" /\ res.started = int(tok.s)
             ELSE res.exc # "none" /\ res.started = -1
        ELSE IF \E i \in 1..Len(items) : endswith(items[i].relpath[2], tok.s)
             THEN res.exc = "none" /\ endswith(items[res.started + 1].relpath[2], tok.s)
             ELSE res.exc # "none" /\ res.started = -1

----------------------------------------------------------------------------
(* SpecPending: first_pending_index on every small queue *)

\* The statuses of the queues given to first_pending_index: none yet (as a
\* scan leaves the item), pending, and decided.
PendingStatuses == {Absent, Str("pending"), Str("accepted")}

PendingQueues ==
    UNION {{[i \in 1..n |-> Item(Str(<<"a">>), f[i], Null)] : f \in [1..n -> PendingStatuses]}
           : n \in 0..MaxPending}

InitPending ==
    /\ items \in PendingQueues
    /\ tok = TokNone
    /\ res = ResNone
    /\ index = 0 /\ show_help = FALSE /\ last_ops = <<>> /\ pc = "idle"
    /\ auto_open = FALSE /\ now = 0 /\ opened = -1 /\ hist = HistNone
    /\ target = FileAbsent /\ strays = 0
    /\ StoreIdle /\ BuildIdle

FirstPendingIndex ==
    /\ res.op = "none"
    /\ res' = [op |-> "first_pending_index", exc |-> "none",
               idx |-> first_pending_index(items), started |-> -1]
    /\ UNCHANGED <<reviewVars, fsVars, storeVars, tok, buildVars>>

NextPending == FirstPendingIndex

SpecPending == InitPending /\ [][NextPending]_vars

\* The 0-based positions of the items whose status is pending.
PendingPositions == {i \in 0..(Len(items) - 1) : items[i + 1].status = Str("pending")}

\* C11: first_pending_index returns the smallest position whose item has
\* status pending, and 0 when no item has (the empty queue and a queue of
\* decided items included).
C11_FirstPendingOrZero ==
    res.op = "first_pending_index" =>
        IF PendingPositions = {} THEN res.idx = 0
        ELSE res.idx \in PendingPositions /\ \A j \in PendingPositions : res.idx <= j

\* C11's case: in a queue of five items only item 3 is pending, the others
\* are decided, and 3 is returned.
C11_Witness ==
    /\ res.op = "first_pending_index" /\ Len(items) = 5 /\ res.idx = 3
    /\ \A i \in 1..5 : items[i].status = (IF i = 4 THEN Str("pending") ELSE Str("accepted"))

----------------------------------------------------------------------------
(* SpecRound: save_all of a schema-valid document, then load_queue *)

\* Items that pass the schema, with every optional field absent, null or set.
RoundItems ==
    {[Item(Str(<<"a">>), st, dt) EXCEPT !.width = w] :
        st \in {Absent, Null, Str("pending")}, dt \in {Absent, Null, Str(1)},
        w \in {Absent, Null, Num}}

RoundQueues == UNION {[1..n -> RoundItems] : n \in 0..MaxSaved}

InitRound ==
    /\ items \in RoundQueues
    /\ target = FileAbsent
    /\ strays = 0
    /\ ret = RetNone
    /\ scan = "idle"
    /\ index = 0 /\ show_help = FALSE /\ last_ops = <<>> /\ pc = "idle"
    /\ auto_open = FALSE /\ now = 0 /\ opened = -1 /\ hist = HistNone
    /\ FindIdle /\ BuildIdle

\* save_all(root, d) for the document d whose items are the variable items
RoundSave(outcome) ==
    /\ ret.op = "none"
    /\ LET w == save_all(FS, QueueDoc(items), outcome) IN
       /\ target' = w.target
       /\ strays' = w.strays
       /\ ret' = SaveRet("save_all", w, outcome, TRUE, TRUE)
    /\ UNCHANGED scan
    /\ UNCHANGED <<reviewVars, findVars, buildVars>>

\* load_queue(root) after it; wrote remembers whether the save succeeded
RoundLoad ==
    /\ ret.op = "save_all"
    /\ LET r == load_queue(FS) IN
       ret' = [RetNone EXCEPT !.op = "load_queue", !.exc = r.exc, !.data = r.data,
                              !.wrote = (ret.exc = "none")]
    /\ UNCHANGED <<target, strays, scan>>
    /\ UNCHANGED <<reviewVars, findVars, buildVars>>

NextRound ==
    \/ \E outcome \in {"ok", "replace_fails"} : RoundSave(outcome)
    \/ RoundLoad

SpecRound == InitRound /\ [][NextRound]_vars

----------------------------------------------------------------------------
(* SpecBuild: build_queue and the scan command on every small tree *)

Hashes == {"h1", "h2"}

BuildFiles == {File(<<>>, TRUE, m, h) : m \in 1..2, h \in Hashes \cup {"none"}}
BuildTrees == UNION {[1..n -> BuildFiles] : n \in 0..MaxFiles}

InitBuild ==
    /\ tree \in BuildTrees
    /\ built = BuiltNone
    /\ target = FileAbsent /\ strays = 0
    /\ ReviewIdle /\ StoreIdle /\ FindIdle

BuildQueue(limit, seen_hashes) ==
    /\ built.op = "none"
    /\ LET r == build_queue(tree, limit, seen_hashes) IN
       built' = [op |-> "build_queue", limit |-> limit, seen0 |-> seen_hashes,
                 items |-> r.items, seen |-> r.seen, errors |-> r.errors]
    /\ UNCHANGED <<reviewVars, fsVars, storeVars, findVars, tree>>

\* get_image_info's item for the file at position p
ScannedItemOf(p) == [ScannedItem EXCEPT !.relpath = RelOf(p)]

\* cli.py 136-162: the scan, and unless --dry-run the write of queue.json
QueueScan(limit, dry_run) ==
    /\ built.op = "none"
    /\ LET r == queue_scan_cmd(tree, limit) IN
       /\ built' = [op |-> "queue_scan", limit |-> limit, seen0 |-> {},
                    items |-> r.items, seen |-> r.seen, errors |-> r.errors]
       /\ target' = IF dry_run THEN target
                     ELSE dumps(QueueDoc([i \in 1..Len(r.items) |->
                                             ScannedItemOf(r.items[i].pos)]))
    /\ UNCHANGED <<reviewVars, strays, storeVars, findVars, tree>>

NextBuild ==
    \/ \E limit \in 0..MaxLimit, seen_hashes \in SUBSET Hashes : BuildQueue(limit, seen_hashes)
    \/ \E limit \in 0..MaxLimit, dry_run \in BOOLEAN : QueueScan(limit, dry_run)

SpecBuild == InitBuild /\ [][NextBuild]_vars

----------------------------------------------------------------------------
(* Claims about the Dedup Builder *)

BuiltHash(i)  == tree[built.items[i].pos].phash
BuiltMtime(i) == tree[built.items[i].pos].mtime
QueuedHashes  == {BuiltHash(i) : i \in {k \in 1..Len(built.items) :
                                            built.items[k].status = "queued"}}
\* The files build_queue can make an item of.
Decodable == {p \in 1..Len(tree) : tree[p].img /\ tree[p].phash # "none"}

\* C13: build_queue processes files newest first, and of the decodable
\* files with one fingerprint that is not in the initial seen-set the first
\* processed, the newest, is queued and each later one is skipped-duplicate.
C13_NewestFirstOccurrenceWins ==
    built.op = "build_queue" =>
        /\ \A i, j \in 1..Len(built.items) : i < j => BuiltMtime(i) >= BuiltMtime(j)
        /\ \A i \in 1..Len(built.items) :
              BuiltHash(i) \notin built.seen0 =>
                 /\ built.items[i].status =
                       (IF \E j \in 1..(i - 1) : BuiltHash(j) = BuiltHash(i)
                        THEN "skipped-duplicate" ELSE "queued")
                 /\ built.items[i].status = "queued" =>
                       \A p \in Decodable :
                          tree[p].phash = BuiltHash(i) => tree[p].mtime <= BuiltMtime(i)
        /\ built.limit = 0 =>
              /\ {built.items[i].pos : i \in 1..Len(built.items)} = Decodable
              /\ Len(built.items) = Cardinality(Decodable)

\* C13's case: b (older) is met before a (newer), both have one
\* fingerprint, and the result is [a queued, b skipped-duplicate].
C13_Witness ==
    /\ built.op = "build_queue" /\ built.limit = 0 /\ built.seen0 = {}
    /\ Len(tree) = 2 /\ tree[1].phash = "h1" /\ tree[2].phash = "h1"
    /\ tree[1].mtime < tree[2].mtime
    /\ built.items = <<[pos |-> 2, status |-> "queued"],
                        [pos |-> 1, status |-> "skipped-duplicate"]>>

\* C14 as stated: after build_queue the seen-set holds exactly the
\* fingerprints of the queued items it produced, whatever the initial
\* seen-set.
C14_SeenIsQueuedHashes ==
    built.op = "build_queue" => built.seen = QueuedHashes

\* C14 as amended: after build_queue the seen-set holds exactly the
\* fingerprints of the initial seen-set and those of the queued items it
\* produced.
C14_SeenIsInitialAndQueuedHashes ==
    built.op = "build_queue" => built.seen = built.seen0 \cup QueuedHashes

\* C14's case: the caller passed a fingerprint, a file with it was skipped
\* and a file with another fingerprint was queued.
C14_Witness ==
    /\ built.op = "build_queue" /\ built.seen0 = {"h1"}
    /\ \E i, j \in 1..Len(built.items) :
          /\ built.items[i].status = "queued" /\ BuiltHash(i) = "h2"
          /\ built.items[j].status = "skipped-duplicate" /\ BuiltHash(j) = "h1"

\* C15: with limit = N >= 1 build_queue produces at most N queued items,
\* and only queued items count towards N: while fewer than N are queued no
\* decodable file is left out, however many duplicates and undecodable
\* files were met.
C15_CapCountsQueuedOnly ==
    (built.op = "build_queue" /\ built.limit >= 1) =>
        /\ QueuedCount(built.items) <= built.limit
        /\ QueuedCount(built.items) < built.limit =>
              {built.items[i].pos : i \in 1..Len(built.items)} = Decodable
        /\ QueuedCount(built.items) = built.limit =>
              built.items[Len(built.items)].status = "queued"

\* C15's case: with limit 1 a duplicate and an undecodable file were met
\* before the one file that was queued.
C15_Witness ==
    /\ built.op = "build_queue" /\ built.limit = 1
    /\ Len(built.items) = 2
    /\ built.items[1].status = "skipped-duplicate" /\ built.items[2].status = "queued"
    /\ \E p \in 1..Len(tree) :
          tree[p].phash = "none" /\ tree[p].mtime > BuiltMtime(2)

----------------------------------------------------------------------------
(* Claim about the viewer *)

\* C16: a viewer request that fails (the image file is gone) does not end
\* the review loop: the loop goes on to await the next input.
C16_ViewerFailureKeepsLoop ==
    hist.exc = "FileNotFoundError" => pc = "await"

----------------------------------------------------------------------------
(* SpecScan: the two scanners on every small tree *)

DirNames == {<<"s">>, <<"s", ".">>, <<".", "s">>, StateDirName, <<".", "I", "R", "E", "F">>}
DirPaths == UNION {[1..n -> DirNames] : n \in 0..MaxDepth}

ScanFiles == {File(dirs, img, 1, "h1") : dirs \in DirPaths, img \in BOOLEAN}
ScanTrees == UNION {[1..n -> ScanFiles] : n \in 0..MaxTreeFiles}

InitScan ==
    /\ tree \in ScanTrees
    /\ built = BuiltNone
    /\ target = FileAbsent /\ strays = 0
    /\ ReviewIdle /\ StoreIdle /\ FindIdle

\* What a scanner yielded, as a list of items without status.
Yielded(op, files) ==
    [BuiltNone EXCEPT !.op = op,
                      !.items = [k \in 1..Len(files) |-> [pos |-> files[k], status |-> "none"]]]

\* list(iter_image_files(root, exts)), the scanner of the scan command
IterImageFiles ==
    /\ built.op = "none"
    /\ built' = Yielded("iter_image_files", iter_image_files(tree))
    /\ UNCHANGED <<reviewVars, fsVars, storeVars, findVars, tree>>

\* list(_image_files(root, exts)), the scanner of build_queue
ImageFiles ==
    /\ built.op = "none"
    /\ built' = Yielded("_image_files", _image_files(tree))
    /\ UNCHANGED <<reviewVars, fsVars, storeVars, findVars, tree>>

NextScan == IterImageFiles \/ ImageFiles

SpecScan == InitScan /\ [][NextScan]_vars

\* A directory the claim excludes: its name starts with "." or is the name
\* of the state directory.
C17_Excluded(name) == name[1] = "." \/ name = StateDirName

\* C17: no scanner of the queue-building pipeline, the scan command's and
\* the Dedup Builder's, yields a file that lies under a directory whose
\* name starts with "." or is .iref, at any depth below the root.
C17_NoFileUnderHiddenDir ==
    built.op \in {"iter_image_files", "_image_files"} =>
        \A i \in 1..Len(built.items) :
            \A k \in 1..Len(tree[built.items[i].pos].dirs) :
                ~C17_Excluded(tree[built.items[i].pos].dirs[k])

----------------------------------------------------------------------------
(* Claims about the inputs of the review loop, as properties of its steps *)

\* C18: a decision at index i sets item i's status to the decision and its
\* decided_at to the current time, leaves every other item as it was and
\* moves the index to i + 1; it pushes the one entry (i, old status, old
\* decided_at) onto the undo history; the viewer is requested for item
\* i + 1 exactly when i + 1 < length and auto-open is on; and when
\* i + 1 = length the loop ends.
C18_DecisionEffect ==
    [][(pc = "await" /\ now' # now) =>
          /\ hist'.act \in Decisions
          /\ items' = [items EXCEPT ![index + 1].status = Str(hist'.act),
                                     ![index + 1].decided_at = Str(now')]
          /\ index' = index + 1
          /\ opened' = (IF index + 1 < Len(items) /\ auto_open THEN index + 1 ELSE -1)
          /\ pc' = "await" =>
                last_ops' = Append(last_ops, <<index, StatusOf(items, index),
                                               DecidedAtOf(items, index)>>)
          /\ index + 1 = Len(items) => pc' \in {"done", "raised"}
      ]_vars

\* C18's case: after a decision on item i the loop awaits input at i + 1,
\* the viewer was requested for i + 1 and the entry for i is on top of the
\* undo history.
C18_Witness ==
    /\ pc = "await" /\ hist.act \in Decisions /\ auto_open
    /\ index = hist.idx + 1 /\ opened = index
    /\ StatusOf(items, hist.idx) = Str(hist.act)
    /\ DecidedAtOf(items, hist.idx) = Str(now)
    /\ last_ops # <<>>
    /\ last_ops[Len(last_ops)] = <<hist.idx, hist.status, hist.decided_at>>

\* C19: Next and Prev move the index by one within [0, length - 1], never
\* end the loop, change no item and not the undo history, and request the
\* viewer for the new current item exactly when auto-open is on.
C19_NextPrevMoveByOne ==
    [][(pc = "await" /\ hist'.act \in {"next", "prev"}) =>
          /\ index' = (IF hist'.act = "next" THEN Min(index + 1, Len(items) - 1)
                                              ELSE Max(index - 1, 0))
          /\ items' = items
          /\ opened' = (IF auto_open THEN index' ELSE -1)
          /\ pc' = "await"
          /\ last_ops' = last_ops
      ]_vars

\* C20: Undo with an empty history changes nothing; with a non-empty
\* history it gives the item of the most recent entry (idx, s, t) the
\* status s and the decided_at t and sets the index to idx, wherever the
\* index was, and when the loop goes on that one entry is off the history
\* and the queue is persisted.
C20_UndoEffect ==
    [][(pc = "await" /\ hist'.act = "undo") =>
          IF last_ops = <<>>
          THEN /\ items' = items /\ index' = index /\ last_ops' = last_ops
               /\ target' = target /\ pc' = "await"
          ELSE LET op == last_ops[Len(last_ops)] IN
               /\ items' = [items EXCEPT ![op[1] + 1].status = op[2],
                                          ![op[1] + 1].decided_at = op[3]]
               /\ index' = op[1]
               /\ pc' = "await" =>
                     /\ last_ops' = SubSeq(last_ops, 1, Len(last_ops) - 1)
                     /\ target' = dumps(QueueDoc(items'))
      ]_vars

\* C20's case: after two decisions an Undo has taken the second entry off
\* the history, and the loop awaits input at the item it restored.
C20_Witness ==
    /\ pc = "await" /\ hist.act = "undo" /\ hist.decisions = 2
    /\ Len(last_ops) = 1
    /\ DecidedAtOf(items, index) # Str(now)

\* C21: Help, Reopen and unrecognized input change no item, not the index
\* and not the undo history, and persist nothing; Help only toggles
\* show_help, Reopen only requests the viewer for the current item,
\* unrecognized input does nothing; after each the loop awaits the next
\* input.
C21_UtilityInputsKeepState ==
    [][(pc = "await" /\ hist'.act \in {"help", "reopen", "none"}) =>
          /\ items' = items /\ index' = index /\ last_ops' = last_ops
          /\ target' = target /\ strays' = strays
          /\ show_help' = (IF hist'.act = "help" THEN ~show_help ELSE show_help)
          /\ opened' = (IF hist'.act = "reopen" THEN index ELSE -1)
          /\ pc' = "await"
      ]_vars

\* The fields of an item the review may not change are those of the item b.
SameOtherFields(a, b) ==
    a.isdict = b.isdict /\ a.relpath = b.relpath /\ a.width = b.width

\* C22: whatever inputs the review has handled, the queue in memory and the
\* stored document have the items of the session's start, as many and in
\* the same order, each with every field other than status and decided_at
\* as it was.
C22_ReviewKeepsItems ==
    pc \in {"await", "done", "raised"} =>
        /\ Len(items) = Len(hist.initial)
        /\ \A i \in 1..Len(items) : SameOtherFields(items[i], hist.initial[i])
        /\ target.st = "json"
        /\ LET stored == loads(target).data.items IN
           /\ Len(stored) = Len(hist.initial)
           /\ \A i \in 1..Len(stored) : SameOtherFields(stored[i], hist.initial[i])

\* C22's case: a decision and an Undo have been handled and persisted, and
\* the first item still has the relpath and the width of the scan.
C22_Witness ==
    /\ pc = "await" /\ hist.act = "undo" /\ hist.undos = 1
    /\ Len(items) = 2
    /\ items[1].relpath = RelOf(1) /\ items[1].width = Num
    /\ loads(target).data.items[1].width = Num
    /\ loads(target).data.items[2].relpath = RelOf(2)

\* Undo applied until the history is empty, every flush succeeding.
RECURSIVE UndoAll(_)
UndoAll(s) == IF s.last_ops = <<>> THEN s ELSE UndoAll(on_undo(s, "ok"))

\* C23: while the loop is running the undo history is as long as the
\* number of decisions less the number of Undos that found an entry, every
\* entry's index is a position of the queue, and Undo applied until the
\* history is empty gives every item the status and decided_at it had at
\* the session's start.
C23_HistoryIsLifoLog ==
    pc = "await" =>
        /\ Len(last_ops) = hist.decisions - hist.undos
        /\ \A k \in 1..Len(last_ops) : 0 <= last_ops[k][1] /\ last_ops[k][1] < Len(items)
        /\ LET u == UndoAll(Here) IN
           /\ u.last_ops = <<>>
           /\ \A i \in 1..Len(items) :
                 /\ u.items[i].status = hist.initial[i].status
                 /\ u.items[i].decided_at = hist.initial[i].decided_at

\* C23's case: the same item was decided twice (a decision, Prev, another
\* decision) and both entries are on the history.
C23_Witness ==
    /\ pc = "await" /\ hist.decisions = 2 /\ Len(last_ops) = 2
    /\ last_ops[1][1] = last_ops[2][1]
    /\ StatusOf(items, last_ops[1][1]) # hist.initial[last_ops[1][1] + 1].status

====
